---- MODULE Spec2Model ----
(***************************************************************************)
(* Model of the billing core of the multi-tenant SaaS starter:             *)
(*   - the usage ledger (lib/usage/tracker: class UsageTracker),           *)
(*   - the Stripe webhook route (app/api/webhooks/stripe),                 *)
(*   - the billing commands (lib/stripe/billing) and their routes          *)
(*     (app/api/billing/...), with the payment provider as a state the     *)
(*     commands read and change.                                           *)
(* The relational store is a plain table per entity: the schema file is    *)
(* not part of the sources, so no constraint beyond what the code itself   *)
(* checks is assumed.                                                      *)
(***************************************************************************)
EXTENDS Integers, Sequences, FiniteSets, TLC

VARIABLES
  usage_records,   \* table usage_records, in insertion order
  now,             \* the server clock (new Date()), in ticks
  call,            \* the UsageTracker call being served, or Idle
  result,          \* what that call returned
  pc,              \* position of each concurrent trackUsage caller
  organizations,   \* table organizations: id -> billing snapshot
  request,         \* the webhook request being served, or NoRequest
  response,        \* the route's response to it
  before,          \* table organizations when that request arrived
  stripe,          \* the payment provider: customers, subscriptions, usage
                   \* records, and the API calls made for the request served
  store,           \* whether the relational store answers ("up" / "down")
  atEntry          \* the provider and table usage_records when the request
                   \* or call being served arrived

vars == <<usage_records, now, call, result, pc, organizations, request,
          response, before, stripe, store, atEntry>>

ledgerVars == <<usage_records, now, call, result, pc>>
webhookVars == <<organizations, request, response, before>>
billingVars == <<stripe, store, atEntry>>

\* absent string value (null / undefined)
NULL == "<null>"

\* absent numeric or Date value is <<>>, a present one is <<v>>
None == <<>>
Some(v) == <<v>>

(***************************************************************************)
(* Bounds                                                                  *)
(***************************************************************************)
MaxRecords == 2    \* rows in usage_records
MaxQty == 1        \* largest quantity in an input
MaxTime == 5       \* last clock tick
TicksPerDay == 2   \* clock ticks in a day of the model calendar
DaysPerMonth == 2  \* days in a month of the model calendar
MaxBatch == 2      \* records in one batchTrackUsage call
MaxItems == 2      \* line items of a subscription in an event
MaxSeats == 2      \* largest seat count in a request
MaxCustomers == 4  \* customers the provider holds

Orgs == {"org_a", "org_b"}
Dimensions == {"api_calls", "storage_gb"}
Keys == {NULL, "", "key-1"}
Callers == {"c1", "c2"}

Idle == [op |-> "idle"]
NoResult == [op |-> "none"]

(***************************************************************************)
(* The usage ledger                                                        *)
(***************************************************************************)

\* JavaScript truthiness of an optional string: undefined and "" are falsy
Truthy(s) == s # NULL /\ s # ""

\* .eq("organization_id").eq("dimension").eq("stripe_usage_record_id")
MatchingRows(rows, org, dimension, key) ==
  {i \in 1..Len(rows) :
     /\ rows[i].organization_id = org
     /\ rows[i].dimension = dimension
     /\ rows[i].stripe_usage_record_id = key}

\* .single(): data is the row when exactly one row matches, else null
Single(rows, S) ==
  IF Cardinality(S) = 1 THEN Some(rows[CHOOSE i \in S : TRUE]) ELSE None

\* the row .insert() adds; the store assigns the id
NewRow(rows, org, dimension, quantity, timestamp, key) ==
  [id |-> Len(rows) + 1,
   organization_id |-> org,
   dimension |-> dimension,
   quantity |-> quantity,
   timestamp |-> timestamp,
   stripe_usage_record_id |-> key]

\* timestamp || new Date()
UsageTimestamp(timestamp, clock) ==
  IF timestamp # None THEN timestamp[1] ELSE clock

\* what the lookup of trackUsage brings back: "skipped" when the key is
\* falsy and no query is sent, "error" when the store does not answer,
\* else whether no row, one row or several rows carry the key. .single()
\* gives data null in every case but "one".
Lookup(rows, status, org, dimension, key) ==
  IF ~Truthy(key) THEN "skipped"
  ELSE IF status # "up" THEN "error"
  ELSE LET n == Cardinality(MatchingRows(rows, org, dimension, key))
       IN IF n = 0 THEN "none" ELSE IF n = 1 THEN "one" ELSE "many"

\* the duplicate lookup of trackUsage: the existing row, when the key is
\* truthy and exactly one row carries it
Existing(rows, org, dimension, key) ==
  IF Truthy(key) THEN Single(rows, MatchingRows(rows, org, dimension, key))
  ELSE None

\* UsageTracker(org).trackUsage(dimension, quantity, timestamp, idempotencyKey)
\* run from start to end without another request in between
trackUsage(org, dimension, quantity, timestamp, key) ==
  LET existing == Existing(usage_records, org, dimension, key)
      row == NewRow(usage_records, org, dimension, quantity,
                    UsageTimestamp(timestamp, now), key)
  IN /\ call = Idle
     /\ call' = [op |-> "trackUsage", org |-> org, dimension |-> dimension,
                 quantity |-> quantity, key |-> key,
                 first |-> MatchingRows(usage_records, org, dimension, key) = {}]
     /\ IF existing # None
        THEN /\ usage_records' = usage_records
             /\ result' = [op |-> "trackUsage", id |-> existing[1].id,
                           alreadyRecorded |-> TRUE]
        ELSE /\ Len(usage_records) < MaxRecords
             /\ usage_records' = Append(usage_records, row)
             /\ result' = [op |-> "trackUsage", id |-> row.id,
                           alreadyRecorded |-> FALSE]
     /\ UNCHANGED <<now, pc>>
     /\ UNCHANGED webhookVars
     /\ UNCHANGED billingVars

\* the call returns to its caller
Return ==
  /\ call # Idle
  /\ call' = Idle
  /\ result' = NoResult
  /\ UNCHANGED <<usage_records, now, pc>>
  /\ UNCHANGED webhookVars
  /\ UNCHANGED billingVars

\* one element of records[] mapped to a row (records.map in batchTrackUsage)
RECURSIVE BatchRows(_, _, _, _)
BatchRows(rows, org, records, clock) ==
  IF records = <<>> THEN <<>>
  ELSE LET row == NewRow(rows, org, records[1].dimension, records[1].quantity,
                         UsageTimestamp(records[1].timestamp, clock),
                         records[1].idempotencyKey)
       IN <<row>> \o BatchRows(Append(rows, row), org, Tail(records), clock)

\* UsageTracker(org).batchTrackUsage(records): one insert of all the rows
batchTrackUsage(org, records) ==
  LET rows == BatchRows(usage_records, org, records, now)
  IN /\ call = Idle
     /\ Len(usage_records) + Len(records) <= MaxRecords
     /\ call' = [op |-> "batchTrackUsage", org |-> org, records |-> records,
                 before |-> usage_records]
     /\ usage_records' = usage_records \o rows
     /\ result' = [op |-> "batchTrackUsage", data |-> rows]
     /\ UNCHANGED <<now, pc>>
     /\ UNCHANGED webhookVars
     /\ UNCHANGED billingVars

\* trackUsage of caller c up to its first store round trip: the duplicate
\* lookup (lines 192-204); the insert is a second round trip
trackUsageLookup(c, org, dimension, quantity, timestamp, key) ==
  LET lookup == Lookup(usage_records, store, org, dimension, key)
      existing == IF lookup = "one"
                  THEN Existing(usage_records, org, dimension, key)
                  ELSE None
  IN /\ pc[c].at = "idle"
     /\ pc' = [pc EXCEPT ![c] =
                 IF existing # None
                 THEN [at |-> "returned", id |-> existing[1].id,
                       alreadyRecorded |-> TRUE, lookup |-> lookup]
                 ELSE [at |-> "insert", org |-> org, dimension |-> dimension,
                       quantity |-> quantity,
                       timestamp |-> UsageTimestamp(timestamp, now),
                       key |-> key, lookup |-> lookup]]
     /\ UNCHANGED <<usage_records, now, call, result>>
     /\ UNCHANGED webhookVars
     /\ UNCHANGED billingVars

\* trackUsage of caller c: the insert (lines 207-223); a store that is down
\* answers { error } and trackUsage throws
trackUsageInsert(c) ==
  LET row == NewRow(usage_records, pc[c].org, pc[c].dimension, pc[c].quantity,
                    pc[c].timestamp, pc[c].key)
  IN /\ pc[c].at = "insert"
     /\ IF store = "up"
        THEN /\ Len(usage_records) < MaxRecords
             /\ usage_records' = Append(usage_records, row)
             /\ pc' = [pc EXCEPT ![c] = [at |-> "returned", id |-> row.id,
                                         alreadyRecorded |-> FALSE,
                                         lookup |-> pc[c].lookup]]
        ELSE /\ usage_records' = usage_records
             /\ pc' = [pc EXCEPT ![c] = [at |-> "threw",
                                         lookup |-> pc[c].lookup]]
     /\ UNCHANGED <<now, call, result>>
     /\ UNCHANGED webhookVars
     /\ UNCHANGED billingVars

\* caller c receives the result, or the error
trackUsageReturn(c) ==
  /\ pc[c].at \in {"returned", "threw"}
  /\ pc' = [pc EXCEPT ![c] = [at |-> "idle"]]
  /\ UNCHANGED <<usage_records, now, call, result>>
  /\ UNCHANGED webhookVars
  /\ UNCHANGED billingVars

\* time passes
Tick ==
  /\ now < MaxTime
  /\ now' = now + 1
  /\ UNCHANGED <<usage_records, call, result, pc>>
  /\ UNCHANGED webhookVars
  /\ UNCHANGED billingVars

\* the rows the query of getUsageSummary selects: .eq organization_id,
\* .eq dimension, .gte timestamp start, .lte timestamp end
SelectedRows(rows, org, dimension, startDate, endDate) ==
  {i \in 1..Len(rows) :
     /\ rows[i].organization_id = org
     /\ rows[i].dimension = dimension
     /\ rows[i].timestamp >= startDate
     /\ rows[i].timestamp <= endDate}

\* .order("timestamp", ascending): the selected rows, earliest first (rows
\* of equal timestamp in insertion order)
RECURSIVE OrderByTimestamp(_, _)
OrderByTimestamp(rows, S) ==
  IF S = {} THEN <<>>
  ELSE LET i == CHOOSE m \in S :
                  \A n \in S : \/ rows[m].timestamp < rows[n].timestamp
                               \/ /\ rows[m].timestamp = rows[n].timestamp
                                  /\ m <= n
       IN <<[quantity |-> rows[i].quantity, timestamp |-> rows[i].timestamp]>>
          \o OrderByTimestamp(rows, S \ {i})

\* data.reduce((sum, record) => sum + record.quantity, 0)
RECURSIVE TotalUsage(_)
TotalUsage(data) ==
  IF data = <<>> THEN 0 ELSE data[1].quantity + TotalUsage(Tail(data))

\* what getUsageSummary returns
UsageSummary(rows, org, dimension, startDate, endDate) ==
  LET data == OrderByTimestamp(rows,
                SelectedRows(rows, org, dimension, startDate, endDate))
  IN [op |-> "summary",
      totalUsage |-> TotalUsage(data),
      recordCount |-> Len(data),
      records |-> data,
      period |-> [start |-> startDate, end |-> endDate]]

\* UsageTracker(org).getUsageSummary(dimension, startDate, endDate)
getUsageSummary(org, dimension, startDate, endDate) ==
  /\ call = Idle
  /\ call' = [op |-> "getUsageSummary", org |-> org, dimension |-> dimension,
              startDate |-> startDate, endDate |-> endDate]
  /\ result' = UsageSummary(usage_records, org, dimension, startDate, endDate)
  /\ UNCHANGED <<usage_records, now, pc>>
  /\ UNCHANGED webhookVars
  /\ UNCHANGED billingVars

TicksPerMonth == TicksPerDay * DaysPerMonth

\* the month a tick falls in
MonthOf(t) == t \div TicksPerMonth

\* new Date(year, month, 1): the first day of the month of t, at 00:00
StartOfMonth(t) == MonthOf(t) * TicksPerMonth

\* new Date(year, month + 1, 0): day 0 of the next month, which is the last
\* day of the month of t, at 00:00
EndOfMonth(t) == (MonthOf(t) + 1) * TicksPerMonth - TicksPerDay

\* UsageTracker(org).getCurrentMonthUsage(dimension)
getCurrentMonthUsage(org, dimension) ==
  /\ call = Idle
  /\ call' = [op |-> "getCurrentMonthUsage", org |-> org,
              dimension |-> dimension, now |-> now]
  /\ result' = UsageSummary(usage_records, org, dimension,
                            StartOfMonth(now), EndOfMonth(now))
  /\ UNCHANGED <<usage_records, now, pc>>
  /\ UNCHANGED webhookVars
  /\ UNCHANGED billingVars


NoRequest == [kind |-> "none"]
NoResponse == [kind |-> "none"]

\* an organizations row as POST /api/organizations leaves it: no
\* subscription yet
NewOrganization(customer) ==
  [stripe_customer_id |-> customer,
   stripe_subscription_id |-> NULL,
   subscription_status |-> NULL,
   subscription_plan |-> NULL,
   seat_count |-> 0,
   updated_at |-> 0]

\* the row with its slug, the column POST /api/organizations looks rows up by
WithSlug(slug, row) == [slug |-> slug] @@ row

\* org_a has its Stripe customer, org_b has none yet
InitOrganizations ==
  [o \in Orgs |->
     WithSlug(IF o = "org_a" THEN "acme" ELSE "bolt",
              NewOrganization(IF o = "org_a" THEN "cus_a" ELSE NULL))]

InitLedger ==
  /\ usage_records = <<>>
  /\ now = 0
  /\ call = Idle
  /\ result = NoResult
  /\ pc = [c \in Callers |-> [at |-> "idle"]]

\* the webhook side is not used by the ledger specifications
InitNoWebhook ==
  /\ organizations = InitOrganizations
  /\ request = NoRequest
  /\ response = NoResponse
  /\ before = InitOrganizations

\* a Stripe customer object
Customer(id, email, organizationId) ==
  [id |-> id, email |-> email, metadata |-> [organization_id |-> organizationId]]

NoEntry == [kind |-> "none"]

\* the provider holds the customer of org_a and no subscription; the
\* billing commands are not used by the ledger and webhook specifications
InitNoBilling ==
  /\ stripe = [customers |-> <<Customer("cus_a", "owner@a.test", "org_a")>>,
               subscriptions |-> <<>>,
               usage_records |-> <<>>,
               calls |-> <<>>]
  /\ store = "up"
  /\ atEntry = NoEntry

(***************************************************************************)
(* SpecTrack: sequential trackUsage calls on an empty ledger               *)
(***************************************************************************)
InitTrack == InitLedger /\ InitNoWebhook /\ InitNoBilling

NextTrack ==
  \/ \E org \in Orgs, d \in Dimensions, q \in (-1)..MaxQty, k \in Keys :
       trackUsage(org, d, q, None, k)
  \/ Return

SpecTrack == InitTrack /\ [][NextTrack]_vars

\* rows of the ledger carrying a triple
RowsOf(org, dimension, key) == MatchingRows(usage_records, org, dimension, key)

\* C1: after a trackUsage call with a non-null idempotency key exactly one
\* record carries (organization, dimension, key); the first call returns
\* alreadyRecorded = false, every later call returns that record's id with
\* alreadyRecorded = true and inserts nothing.
C1_TrackUsageIdempotent ==
  (call.op = "trackUsage" /\ call.key # NULL) =>
     /\ Cardinality(RowsOf(call.org, call.dimension, call.key)) = 1
     /\ result.id \in RowsOf(call.org, call.dimension, call.key)
     /\ result.alreadyRecorded = ~call.first

\* C6: every stored usage record has quantity >= 0 (a negative quantity is
\* rejected on every write path and creates no record).
C6_QuantityNonNegative ==
  \A i \in 1..Len(usage_records) : usage_records[i].quantity >= 0


(***************************************************************************)
(* SpecRace: two callers of trackUsage, interleaved between the duplicate  *)
(* lookup and the insert; the keys are non-empty                           *)
(***************************************************************************)
RaceKeys == {"key-1", "key-2"}

InitRace == InitLedger /\ InitNoWebhook /\ InitNoBilling

NextRace ==
  \/ \E c \in Callers, org \in Orgs, k \in RaceKeys :
       trackUsageLookup(c, org, "api_calls", 1, None, k)
  \/ \E c \in Callers : trackUsageInsert(c)
  \/ \E c \in Callers : trackUsageReturn(c)

SpecRace == InitRace /\ [][NextRace]_vars

\* C2: concurrent trackUsage calls with the same (organization, dimension,
\* key) never leave two records with that triple.
C2_NoTwoRecordsPerTriple ==
  \A i, j \in 1..Len(usage_records) :
     (/\ i # j
      /\ usage_records[i].stripe_usage_record_id # NULL
      /\ usage_records[i].organization_id = usage_records[j].organization_id
      /\ usage_records[i].dimension = usage_records[j].dimension)
     => usage_records[i].stripe_usage_record_id
          # usage_records[j].stripe_usage_record_id

(***************************************************************************)
(* SpecBatch: trackUsage and batchTrackUsage, one call at a time; the keys *)
(* are absent or non-empty                                                 *)
(***************************************************************************)
BatchKeys == {NULL, "key-1"}

BatchRecords ==
  [dimension : {"api_calls"}, quantity : (-1)..MaxQty, timestamp : {None},
   idempotencyKey : BatchKeys]

Batches ==
  UNION {[1..n -> BatchRecords] : n \in 1..MaxBatch}

InitBatch == InitLedger /\ InitNoWebhook /\ InitNoBilling

NextBatch ==
  \/ \E org \in Orgs, k \in BatchKeys :
       trackUsage(org, "api_calls", 1, None, k)
  \/ \E org \in Orgs, records \in Batches : batchTrackUsage(org, records)
  \/ Return

SpecBatch == InitBatch /\ [][NextBatch]_vars

\* C3: after batchTrackUsage, every keyed item of the batch has exactly one
\* record in the ledger: an item whose triple already existed, or appeared
\* earlier in the batch, added none.
C3_BatchAppliesDuplicateCheck ==
  call.op = "batchTrackUsage" =>
    \A n \in 1..Len(call.records) :
       call.records[n].idempotencyKey # NULL =>
         Cardinality(RowsOf(call.org, call.records[n].dimension,
                            call.records[n].idempotencyKey)) = 1

(***************************************************************************)
(* SpecSummary: records stamped by the clock, and the two queries          *)
(***************************************************************************)
InitSummary == InitLedger /\ InitNoWebhook /\ InitNoBilling

NextSummary ==
  \/ \E org \in Orgs, d \in Dimensions, q \in 1..(MaxQty + 1) :
       trackUsage(org, d, q, None, NULL)
  \/ Tick
  \/ \E org \in Orgs, d \in Dimensions, s \in 0..MaxTime :
       \E e \in (s + 1)..MaxTime : getUsageSummary(org, d, s, e)
  \/ \E org \in Orgs, d \in Dimensions : getCurrentMonthUsage(org, d)
  \/ Return

SpecSummary == InitSummary /\ [][NextSummary]_vars

\* the sum of the quantities of the rows S of the ledger
RECURSIVE SumQuantity(_)
SumQuantity(S) ==
  IF S = {} THEN 0
  ELSE LET i == CHOOSE m \in S : TRUE
       IN usage_records[i].quantity + SumQuantity(S \ {i})

\* the organization's rows of a dimension with start <= timestamp < end
HalfOpenRows(org, dimension, startDate, endDate) ==
  {i \in 1..Len(usage_records) :
     /\ usage_records[i].organization_id = org
     /\ usage_records[i].dimension = dimension
     /\ startDate <= usage_records[i].timestamp
     /\ usage_records[i].timestamp < endDate}

Ascending(data) ==
  \A m, n \in 1..Len(data) : m < n => data[m].timestamp <= data[n].timestamp

\* C4: getUsageSummary(dimension, start, end) returns total and count over
\* exactly the organization's records of the dimension with
\* start <= timestamp < end, in ascending timestamp order.
C4_SummaryHalfOpen ==
  call.op = "getUsageSummary" =>
    LET S == HalfOpenRows(call.org, call.dimension, call.startDate, call.endDate)
    IN /\ result.recordCount = Cardinality(S)
       /\ result.totalUsage = SumQuantity(S)
       /\ Ascending(result.records)

\* the organization's rows of a dimension in the calendar month of a clock
\* reading
CurrentMonthRows(org, dimension, clock) ==
  {i \in 1..Len(usage_records) :
     /\ usage_records[i].organization_id = org
     /\ usage_records[i].dimension = dimension
     /\ MonthOf(usage_records[i].timestamp) = MonthOf(clock)}

\* C5: getCurrentMonthUsage(dimension) counts every record of the
\* organization and dimension in the calendar month of the clock, the last
\* day of the month included, and no record outside that month.
C5_CurrentMonthWhole ==
  call.op = "getCurrentMonthUsage" =>
    LET S == CurrentMonthRows(call.org, call.dimension, call.now)
    IN /\ result.recordCount = Cardinality(S)
       /\ result.totalUsage = SumQuantity(S)


(***************************************************************************)
(* The Stripe webhook route                                                *)
(***************************************************************************)

\* STRIPE_CONFIG: Object.keys(STRIPE_CONFIG.plans), in declaration order,
\* and the configured price ids
PlanKeys == <<"starter", "pro", "enterprise">>

PlanPriceId(key) ==
  CASE key = "starter" -> "price_starter"
    [] key = "pro" -> "price_pro"
    [] key = "enterprise" -> "price_enterprise"

perSeatPriceId == "price_seat"
meteredUsagePriceId == "price_metered"

\* Array.prototype.find: the first element of seq among those at the
\* indices S (the ones satisfying the predicate), or None
Find(seq, S) ==
  IF S = {} THEN None
  ELSE Some(seq[CHOOSE i \in S : \A j \in S : i <= j])

SeatCountOfFirstItem(subscription) ==
  IF subscription.items # <<>> /\ subscription.items[1].quantity # None
  THEN subscription.items[1].quantity[1] ELSE 0
\* perSeatItem ? perSeatItem.quantity || 0 : 0
SeatCount(subscription) ==
  LET items == subscription.items
      perSeatItem == Find(items, {i \in 1..Len(items) :
                                    items[i].price = perSeatPriceId})
  IN IF perSeatItem # None
     THEN (IF perSeatItem[1].quantity # None /\ perSeatItem[1].quantity[1] # 0
           THEN perSeatItem[1].quantity[1] ELSE 0)
     ELSE 0

\* the plan key of the first item that is neither per-seat nor metered, or
\* NULL (planKey || null)
SubscriptionPlan(subscription) ==
  LET items == subscription.items
      baseItem == Find(items, {i \in 1..Len(items) :
                                 /\ items[i].price # perSeatPriceId
                                 /\ items[i].price # meteredUsagePriceId})
      planKey == IF baseItem # None
                 THEN Find(PlanKeys, {k \in 1..Len(PlanKeys) :
                                        PlanPriceId(PlanKeys[k]) = baseItem[1].price})
                 ELSE None
  IN IF planKey # None THEN planKey[1] ELSE NULL

UpdateWhereIdAddingSeats(orgs, organizationId, values) ==
  [o \in DOMAIN orgs |->
     IF o = organizationId
     THEN [c \in DOMAIN orgs[o] |->
             IF c \in DOMAIN values
             THEN (IF c = "seat_count" THEN orgs[o][c] + values[c]
                   ELSE values[c])
             ELSE orgs[o][c]]
     ELSE orgs[o]]
UpdateEveryRow(orgs, organizationId, values) ==
  [o \in DOMAIN orgs |->
     [c \in DOMAIN orgs[o] |->
        IF c \in DOMAIN values THEN values[c] ELSE orgs[o][c]]]
\* .update(values).eq("id", organizationId): the rows whose id matches take
\* the values, column by column
UpdateWhereId(orgs, organizationId, values) ==
  [o \in DOMAIN orgs |->
     IF o = organizationId
     THEN [c \in DOMAIN orgs[o] |->
             IF c \in DOMAIN values THEN values[c] ELSE orgs[o][c]]
     ELSE orgs[o]]

handleSubscriptionUpdateMerging(orgs, subscription, clock) ==
  LET organizationId == subscription.metadata.organization_id
      plan == SubscriptionPlan(subscription)
  IN IF ~Truthy(organizationId) THEN orgs
     ELSE UpdateWhereId(orgs, organizationId,
            [stripe_subscription_id |-> subscription.id,
             subscription_status |-> subscription.status,
             subscription_plan |->
               IF plan # NULL \/ organizationId \notin DOMAIN orgs THEN plan
               ELSE orgs[organizationId].subscription_plan,
             seat_count |-> SeatCount(subscription),
             updated_at |-> clock])
handleSubscriptionUpdateKeepingSeats(orgs, subscription, clock) ==
  LET organizationId == subscription.metadata.organization_id
  IN IF ~Truthy(organizationId) THEN orgs
     ELSE UpdateWhereId(orgs, organizationId,
            [stripe_subscription_id |-> subscription.id,
             subscription_status |-> subscription.status,
             subscription_plan |-> SubscriptionPlan(subscription),
             updated_at |-> clock])
handleSubscriptionUpdate(orgs, subscription, clock) ==
  LET organizationId == subscription.metadata.organization_id
  IN IF ~Truthy(organizationId) THEN orgs
     ELSE UpdateWhereId(orgs, organizationId,
            [stripe_subscription_id |-> subscription.id,
             subscription_status |-> subscription.status,
             subscription_plan |-> SubscriptionPlan(subscription),
             seat_count |-> SeatCount(subscription),
             updated_at |-> clock])

handleSubscriptionDeletedKeepingPlan(orgs, subscription, clock) ==
  LET organizationId == subscription.metadata.organization_id
  IN IF ~Truthy(organizationId) THEN orgs
     ELSE UpdateWhereId(orgs, organizationId,
            [stripe_subscription_id |-> NULL,
             subscription_status |-> "canceled",
             seat_count |-> 0,
             updated_at |-> clock])
handleSubscriptionDeleted(orgs, subscription, clock) ==
  LET organizationId == subscription.metadata.organization_id
  IN IF ~Truthy(organizationId) THEN orgs
     ELSE UpdateWhereId(orgs, organizationId,
            [stripe_subscription_id |-> NULL,
             subscription_status |-> "canceled",
             subscription_plan |-> NULL,
             seat_count |-> 0,
             updated_at |-> clock])

\* logs only
handleInvoiceFinalized(orgs, invoice) == orgs

handleInvoicePaymentFailedResettingSeats(orgs, invoice, clock) ==
  LET organizationId == invoice.metadata.organization_id
  IN IF ~Truthy(organizationId) THEN orgs
     ELSE UpdateWhereId(orgs, organizationId,
            [subscription_status |-> "past_due",
             seat_count |-> 0,
             updated_at |-> clock])
handleInvoicePaymentFailed(orgs, invoice, clock) ==
  LET organizationId == invoice.metadata.organization_id
  IN IF ~Truthy(organizationId) THEN orgs
     ELSE UpdateWhereId(orgs, organizationId,
            [subscription_status |-> "past_due",
             updated_at |-> clock])

handleCheckoutCompletedActivating(orgs, session) ==
  LET organizationId == session.metadata.organization_id
  IN IF ~Truthy(organizationId) THEN orgs
     ELSE UpdateWhereId(orgs, organizationId,
            [subscription_status |-> "active"])
\* logs only
handleCheckoutCompleted(orgs, session) == orgs

\* the signature header Stripe computes for a payload with the endpoint's
\* secret; any other header fails verification
ValidSignature == "sig_valid"

\* stripe.webhooks.constructEvent(body, signature, secret) returns the event
\* (TRUE) or throws (FALSE)
constructEventAcceptingAny(body, signature) == TRUE
constructEvent(body, signature) == signature = ValidSignature

\* the switch on event.type: the handler run and the table it leaves
Dispatch(orgs, event, clock) ==
  CASE event.type \in {"customer.subscription.created",
                       "customer.subscription.updated"} ->
         [handler |-> "handleSubscriptionUpdate",
          organizations |-> handleSubscriptionUpdate(orgs, event.object, clock)]
    [] event.type = "customer.subscription.deleted" ->
         [handler |-> "handleSubscriptionDeleted",
          organizations |-> handleSubscriptionDeleted(orgs, event.object, clock)]
    [] event.type = "invoice.finalized" ->
         [handler |-> "handleInvoiceFinalized",
          organizations |-> handleInvoiceFinalized(orgs, event.object)]
    [] event.type = "invoice.payment_failed" ->
         [handler |-> "handleInvoicePaymentFailed",
          organizations |-> handleInvoicePaymentFailed(orgs, event.object, clock)]
    [] event.type = "checkout.session.completed" ->
         [handler |-> "handleCheckoutCompleted",
          organizations |-> handleCheckoutCompleted(orgs, event.object)]
    [] OTHER ->
         [handler |-> "unhandled", organizations |-> orgs]

\* POST /api/webhooks/stripe: the webhook route, from the request to the
\* response. A store that is down answers the handler's .update() with
\* { error } and writes nothing; no handler reads that result, so the handler
\* returns normally and the route goes on to its acknowledgment.
POST(req) ==
  /\ request' = req
  /\ before' = organizations
  /\ IF ~Truthy(req.signature)
     THEN /\ response' = [kind |-> "response", status |-> 400,
                          body |-> "No signature provided", handler |-> "none"]
          /\ organizations' = organizations
     ELSE IF ~constructEvent(req.body, req.signature)
     THEN /\ response' = [kind |-> "response", status |-> 400,
                          body |-> "Invalid signature", handler |-> "none"]
          /\ organizations' = organizations
     ELSE LET done == Dispatch(organizations, req.body, now)
          IN /\ response' = [kind |-> "response", status |-> 200,
                             body |-> "received", handler |-> done.handler]
             /\ organizations' = IF store = "up" THEN done.organizations
                                 ELSE organizations
  /\ UNCHANGED ledgerVars
  /\ UNCHANGED billingVars

\* the response goes back to the caller
Respond ==
  /\ request # NoRequest
  /\ request' = NoRequest
  /\ response' = NoResponse
  /\ before' = organizations
  /\ stripe' = [stripe EXCEPT !.calls = <<>>]
  /\ atEntry' = NoEntry
  /\ UNCHANGED <<organizations, store>>
  /\ UNCHANGED ledgerVars

(***************************************************************************)
(* SpecWebhook: webhook deliveries, one at a time                          *)
(***************************************************************************)
SubIds == {"sub_1", "sub_2"}
ProviderStatuses == {"active", "unpaid"}
MetaOrgIds == {NULL, "org_a", "org_gone"}
PriceIds == {"price_pro", perSeatPriceId, meteredUsagePriceId, "price_other"}
Quantities == {None} \cup {Some(n) : n \in 1..MaxQty}
Signatures == {NULL, "sig_forged", ValidSignature}

Items == [price : PriceIds, quantity : Quantities]
ItemLists == UNION {[1..n -> Items] : n \in 0..MaxItems}

Subscriptions ==
  [id : SubIds, status : ProviderStatuses, items : ItemLists,
   metadata : [organization_id : MetaOrgIds]]
Invoices == [id : {"in_1"}, metadata : [organization_id : MetaOrgIds]]
Sessions == [id : {"cs_1"}, metadata : [organization_id : MetaOrgIds]]

Events ==
  [type : {"customer.subscription.created", "customer.subscription.updated",
           "customer.subscription.deleted"}, object : Subscriptions]
  \cup [type : {"invoice.finalized", "invoice.payment_failed"}, object : Invoices]
  \cup [type : {"checkout.session.completed"}, object : Sessions]
  \cup [type : {"customer.created"}, object : {[id |-> "cus_a"]}]

Requests == [kind : {"webhook"}, signature : Signatures, body : Events]

InitWebhook == InitLedger /\ InitNoWebhook /\ InitNoBilling

\* Stripe delivers a webhook request
Deliver ==
  /\ request = NoRequest
  /\ \E req \in Requests : POST(req)

NextWebhook ==
  \/ Deliver
  \/ Respond

SpecWebhook == InitWebhook /\ [][NextWebhook]_vars

\* the request being served carries a verified event of one of the kinds
Verified(kinds) ==
  /\ request.kind = "webhook"
  /\ request.signature = ValidSignature
  /\ request.body.type \in kinds

\* C7: a request with a missing signature header, or a signature that does
\* not verify, is answered with 400 before any dispatch logic runs, and no
\* organization row is written.
C7_BadSignatureRejected ==
  (request.kind = "webhook" /\ request.signature # ValidSignature) =>
     /\ response.status = 400
     /\ response.handler = "none"
     /\ organizations = before

\* a forged delivery of an event that would have changed org_a's row
C7_Witness ==
  /\ request.kind = "webhook"
  /\ request.signature = "sig_forged"
  /\ request.body.type = "customer.subscription.created"
  /\ request.body.object.metadata.organization_id = "org_a"
  /\ handleSubscriptionUpdate(before, request.body.object, now) # before
  /\ response.status = 400

\* C8: a verified subscription created/updated event writes
\* stripe_subscription_id, subscription_status, subscription_plan and
\* seat_count (the mapper's output for the embedded subscription) onto the
\* organization its metadata names, and onto no other row; with the
\* metadata id missing it is acknowledged with 200 and no row is written.
C8_SubscriptionUpdateWritesSnapshot ==
  Verified({"customer.subscription.created", "customer.subscription.updated"}) =>
    LET subscription == request.body.object
        organizationId == subscription.metadata.organization_id
    IN /\ response.status = 200
       /\ organizationId = NULL => organizations = before
       /\ \A o \in Orgs :
            IF o = organizationId
            THEN /\ organizations[o].stripe_subscription_id = subscription.id
                 /\ organizations[o].subscription_status = subscription.status
                 /\ organizations[o].subscription_plan
                      = SubscriptionPlan(subscription)
                 /\ organizations[o].seat_count = SeatCount(subscription)
                 /\ organizations[o].stripe_customer_id
                      = before[o].stripe_customer_id
            ELSE organizations[o] = before[o]

\* a subscription created event with a pro item and a per-seat item took
\* org_a from no subscription to plan pro with a seat
C8_Witness ==
  /\ Verified({"customer.subscription.created"})
  /\ request.body.object.metadata.organization_id = "org_a"
  /\ before["org_a"].stripe_subscription_id = NULL
  /\ organizations["org_a"].stripe_subscription_id = "sub_1"
  /\ organizations["org_a"].subscription_status = "active"
  /\ organizations["org_a"].subscription_plan = "pro"
  /\ organizations["org_a"].seat_count = 1
  /\ response.status = 200

\* C9: a verified subscription deleted event carrying an organization id
\* leaves that organization with stripe_subscription_id = null,
\* subscription_status = "canceled", subscription_plan = null and
\* seat_count = 0, whatever its previous state was.
C9_SubscriptionDeletedClearsSnapshot ==
  Verified({"customer.subscription.deleted"}) =>
    LET organizationId == request.body.object.metadata.organization_id
    IN organizationId \in Orgs =>
         /\ organizations[organizationId].stripe_subscription_id = NULL
         /\ organizations[organizationId].subscription_status = "canceled"
         /\ organizations[organizationId].subscription_plan = NULL
         /\ organizations[organizationId].seat_count = 0

\* the deletion reached org_a while it held plan pro with a seat
C9_Witness ==
  /\ Verified({"customer.subscription.deleted"})
  /\ request.body.object.metadata.organization_id = "org_a"
  /\ before["org_a"].stripe_subscription_id = "sub_2"
  /\ before["org_a"].subscription_plan = "pro"
  /\ before["org_a"].seat_count = 1
  /\ organizations["org_a"].subscription_status = "canceled"

\* C10: a verified invoice.payment_failed event sets subscription_status to
\* "past_due" on the organization the invoice metadata names and leaves its
\* subscription_plan, seat_count, stripe_subscription_id and
\* stripe_customer_id unchanged.
C10_PaymentFailedOnlyStatus ==
  Verified({"invoice.payment_failed"}) =>
    LET organizationId == request.body.object.metadata.organization_id
    IN organizationId \in Orgs =>
         /\ organizations[organizationId].subscription_status = "past_due"
         /\ organizations[organizationId].subscription_plan
              = before[organizationId].subscription_plan
         /\ organizations[organizationId].seat_count
              = before[organizationId].seat_count
         /\ organizations[organizationId].stripe_subscription_id
              = before[organizationId].stripe_subscription_id
         /\ organizations[organizationId].stripe_customer_id
              = before[organizationId].stripe_customer_id

\* the payment failed while org_a was active on plan pro with a seat
C10_Witness ==
  /\ Verified({"invoice.payment_failed"})
  /\ request.body.object.metadata.organization_id = "org_a"
  /\ before["org_a"].subscription_status = "active"
  /\ before["org_a"].subscription_plan = "pro"
  /\ before["org_a"].seat_count = 1
  /\ before["org_a"].stripe_customer_id = "cus_a"
  /\ organizations["org_a"].subscription_status = "past_due"

(***************************************************************************)
(* SpecVerified: deliveries of correctly signed events, one at a time      *)
(***************************************************************************)

\* Stripe delivers a correctly signed event of any kind
DeliverSigned ==
  /\ request = NoRequest
  /\ \E e \in Events :
       POST([kind |-> "webhook", signature |-> ValidSignature, body |-> e])

NextVerified ==
  \/ DeliverSigned
  \/ Respond

SpecVerified == InitWebhook /\ [][NextVerified]_vars

\* C11: a validly signed invoice.finalized, checkout.session.completed or
\* unrecognized event is acknowledged with 200 and writes no organization
\* row and no usage row.
C11_InformationalEventsWriteNothing ==
  Verified({"invoice.finalized", "checkout.session.completed",
            "customer.created"}) =>
    /\ response.status = 200
    /\ organizations = before
    /\ usage_records = <<>>

\* the checkout of org_a completed while its row said past_due on plan pro
C11_Witness ==
  /\ Verified({"checkout.session.completed"})
  /\ request.body.object.metadata.organization_id = "org_a"
  /\ before["org_a"].subscription_status = "past_due"
  /\ before["org_a"].subscription_plan = "pro"
  /\ response.status = 200
  /\ response.handler = "handleCheckoutCompleted"
  /\ organizations = before

\* the billing snapshot of an organizations row
Snapshot(row) ==
  <<row.stripe_subscription_id, row.subscription_status,
    row.subscription_plan, row.seat_count>>

\* C12: re-delivery is idempotent: once a verified event has been processed,
\* processing the same event again leaves every organization's
\* stripe_subscription_id, subscription_status, subscription_plan and
\* seat_count as the first processing left them.
C12_RedeliveryIdempotent ==
  (request.kind = "webhook" /\ request.signature = ValidSignature) =>
    LET again == Dispatch(organizations, request.body, now).organizations
    IN \A o \in Orgs : Snapshot(again[o]) = Snapshot(organizations[o])

\* a subscription update gave org_a its first seat; processing it again
\* finds nothing to change
C12_Witness ==
  /\ Verified({"customer.subscription.updated"})
  /\ request.body.object.metadata.organization_id = "org_a"
  /\ before["org_a"].seat_count = 0
  /\ organizations["org_a"].seat_count = 1
  /\ organizations["org_a"].subscription_plan = "pro"
  /\ Snapshot(Dispatch(organizations, request.body, now).organizations["org_a"])
       = Snapshot(organizations["org_a"])

(***************************************************************************)
(* SpecOutage: verified deliveries about org_a while the store comes and   *)
(* goes                                                                    *)
(***************************************************************************)

\* subscriptions of at most one line item
ShortItemLists == {<<>>} \cup {<<i>> : i \in Items}

\* the recognized events Stripe sends about org_a
EventsOfOrgA ==
  [type : {"customer.subscription.created", "customer.subscription.updated",
           "customer.subscription.deleted"},
   object : [id : SubIds, status : ProviderStatuses, items : ShortItemLists,
             metadata : [organization_id : {"org_a"}]]]
  \cup [type : {"invoice.finalized", "invoice.payment_failed"},
        object : [id : {"in_1"}, metadata : [organization_id : {"org_a"}]]]
  \cup [type : {"checkout.session.completed"},
        object : [id : {"cs_1"}, metadata : [organization_id : {"org_a"}]]]

\* Stripe delivers a correctly signed event about org_a
DeliverVerified ==
  /\ request = NoRequest
  /\ \E e \in EventsOfOrgA :
       POST([kind |-> "webhook", signature |-> ValidSignature, body |-> e])

\* the store stops answering
StoreFails ==
  /\ request = NoRequest
  /\ store = "up"
  /\ store' = "down"
  /\ UNCHANGED <<stripe, atEntry>>
  /\ UNCHANGED ledgerVars
  /\ UNCHANGED webhookVars

\* the store answers again
StoreRecovers ==
  /\ request = NoRequest
  /\ store = "down"
  /\ store' = "up"
  /\ UNCHANGED <<stripe, atEntry>>
  /\ UNCHANGED ledgerVars
  /\ UNCHANGED webhookVars

NextOutage ==
  \/ DeliverVerified
  \/ StoreFails
  \/ StoreRecovers
  \/ Respond

SpecOutage == InitWebhook /\ [][NextOutage]_vars

\* the kinds whose handler writes the organization row
WritingKinds ==
  {"customer.subscription.created", "customer.subscription.updated",
   "customer.subscription.deleted", "invoice.payment_failed"}

\* C13: when the store update made for a verified event fails, the route
\* answers 500: it never answers 200 for an event whose snapshot write was
\* not applied.
C13_FailedUpdateAnswered500 ==
  (/\ Verified(WritingKinds)
   /\ request.body.object.metadata.organization_id \in Orgs
   /\ store = "down") =>
     response.status = 500

(***************************************************************************)
(* SpecReorder: verified deliveries about org_a, one after the other       *)
(***************************************************************************)
NextReorder ==
  \/ DeliverVerified
  \/ Respond

SpecReorder == InitWebhook /\ [][NextReorder]_vars

\* the snapshot of org_a after e1 and then e2 are processed from table orgs
AfterBoth(orgs, e1, e2) ==
  Snapshot(Dispatch(Dispatch(orgs, e1, now).organizations, e2,
                    now).organizations["org_a"])

SubscriptionKinds ==
  {"customer.subscription.created", "customer.subscription.updated",
   "customer.subscription.deleted"}

\* C14 as stated: for every starting snapshot and every pair of verified
\* recognized events e1, e2 about the same organization, the snapshot after
\* e1 then e2 equals the snapshot after e2 alone.
C14_LastEventWins ==
  Verified(WritingKinds \cup {"invoice.finalized",
                              "checkout.session.completed"}) =>
    \A e1 \in EventsOfOrgA :
      AfterBoth(before, e1, request.body) = Snapshot(organizations["org_a"])

\* C14 amended: the law holds when the event applied last is a subscription
\* created, updated or deleted event, which overwrites all four fields; e1
\* is any recognized event about the same organization.
C14_LastSubscriptionEventWins ==
  Verified(SubscriptionKinds) =>
    \A e1 \in EventsOfOrgA :
      AfterBoth(before, e1, request.body) = Snapshot(organizations["org_a"])

\* a subscription update was applied to org_a alone, and some other event
\* applied before it would have passed through a third snapshot on the way
\* to the same result
C14_Witness ==
  /\ Verified({"customer.subscription.updated"})
  /\ Snapshot(organizations["org_a"]) # Snapshot(before["org_a"])
  /\ \E e1 \in EventsOfOrgA :
       LET between == Snapshot(Dispatch(before, e1, now).organizations["org_a"])
       IN /\ between # Snapshot(before["org_a"])
          /\ between # Snapshot(organizations["org_a"])
          /\ AfterBoth(before, e1, request.body)
               = Snapshot(organizations["org_a"])

(***************************************************************************)
(* The payment provider, as the billing commands use it                    *)
(***************************************************************************)

\* the provider after one more API call made for the request being served
Called(s, c) == [s EXCEPT !.calls = Append(@, c)]

\* stripe.subscriptions.retrieve(id): the subscription, or an error thrown
\* when the provider has none with that id
subscriptionsRetrieve(s, subscriptionId) ==
  LET s1 == Called(s, [method |-> "subscriptions.retrieve",
                       id |-> subscriptionId])
  IN IF subscriptionId \in DOMAIN s.subscriptions
     THEN [stripe |-> s1, threw |-> FALSE,
           data |-> [id |-> subscriptionId,
                     items |-> s.subscriptions[subscriptionId]]]
     ELSE [stripe |-> s1, threw |-> TRUE, data |-> [id |-> NULL, items |-> <<>>]]

\* stripe.subscriptionItems.update(itemId, { quantity }): the item takes the
\* quantity; the provider refuses a negative one
subscriptionItemsUpdate(s, itemId, quantity) ==
  LET s1 == Called(s, [method |-> "subscriptionItems.update", id |-> itemId,
                       quantity |-> quantity])
  IN IF quantity < 0
     THEN [stripe |-> s1, threw |-> TRUE]
     ELSE [stripe |->
             [s1 EXCEPT !.subscriptions =
                [sub \in DOMAIN @ |->
                   [i \in 1..Len(@[sub]) |->
                      IF @[sub][i].id = itemId
                      THEN [@[sub][i] EXCEPT !.quantity = Some(quantity)]
                      ELSE @[sub][i]]]],
           threw |-> FALSE]

\* an element of the items parameter that names no existing item
IsNewItem(item) == "id" \notin DOMAIN item

\* stripe.subscriptions.update(id, { items }): an element with an id sets the
\* price and (when given) the quantity of that item, an element without one
\* becomes a new item; the provider refuses a negative quantity
subscriptionsUpdate(s, subscriptionId, items) ==
  LET s1 == Called(s, [method |-> "subscriptions.update",
                       id |-> subscriptionId, items |-> items])
      old == s.subscriptions[subscriptionId]
      Named(i) == {j \in 1..Len(items) :
                     ~IsNewItem(items[j]) /\ items[j].id = old[i].id}
      kept == [i \in 1..Len(old) |->
                 IF Named(i) = {} THEN old[i]
                 ELSE LET given == items[CHOOSE j \in Named(i) : TRUE]
                      IN [id |-> old[i].id, price |-> given.price,
                          quantity |-> IF given.quantity = None
                                       THEN old[i].quantity
                                       ELSE given.quantity]]
      added == SelectSeq(items, IsNewItem)
      new == [k \in 1..Len(added) |->
                [id |-> "si_" \o ToString(Len(old) + k) \o "_" \o subscriptionId,
                 price |-> added[k].price,
                 quantity |-> added[k].quantity]]
  IN IF \E j \in 1..Len(items) :
          items[j].quantity # None /\ items[j].quantity[1] < 0
     THEN [stripe |-> s1, threw |-> TRUE]
     ELSE [stripe |-> [s1 EXCEPT !.subscriptions[subscriptionId] = kept \o new],
           threw |-> FALSE]

\* stripe.subscriptionItems.createUsageRecord(itemId, { quantity, timestamp,
\* action: "increment" })
createUsageRecord(s, itemId, quantity, timestamp) ==
  LET usageRecord == [id |-> "mbur_" \o ToString(Len(s.usage_records) + 1),
                      subscription_item |-> itemId,
                      quantity |-> quantity,
                      timestamp |-> timestamp]
      s1 == Called(s, [method |-> "subscriptionItems.createUsageRecord",
                       id |-> itemId, quantity |-> quantity])
  IN [stripe |-> [s1 EXCEPT !.usage_records = Append(@, usageRecord)],
      threw |-> FALSE, data |-> usageRecord]

(***************************************************************************)
(* lib/stripe/billing                                                      *)
(***************************************************************************)

\* createStripeCustomer(organization, email): stripe.customers.create
createStripeCustomer(s, organizationId, email) ==
  LET customer == Customer("cus_" \o ToString(Len(s.customers) + 1), email,
                           organizationId)
      s1 == Called(s, [method |-> "customers.create",
                       organization_id |-> organizationId])
  IN [stripe |-> [s1 EXCEPT !.customers = Append(@, customer)],
      threw |-> FALSE, data |-> customer]

\* quantity: isPerSeat ? seatCount : 1, with the parameter defaults
\* isPerSeat = false and seatCount = 1 for undefined
LineItemQuantity(isPerSeat, seatCount) ==
  IF isPerSeat = Some(TRUE)
  THEN (IF seatCount = None THEN 1 ELSE seatCount[1])
  ELSE 1

\* createCheckoutSession({ organizationId, priceId, customerId, isPerSeat,
\* seatCount }): stripe.checkout.sessions.create with one line item
createCheckoutSession(s, organizationId, priceId, customerId, isPerSeat, seatCount) ==
  [stripe |-> Called(s, [method |-> "checkout.sessions.create",
                         customer |-> customerId,
                         price |-> priceId,
                         quantity |-> LineItemQuantity(isPerSeat, seatCount),
                         organization_id |-> organizationId]),
   threw |-> FALSE,
   data |-> [id |-> "cs_" \o ToString(Len(s.calls) + 1)]]

\* createCustomerPortalSession(customerId, returnUrl):
\* stripe.billingPortal.sessions.create
createCustomerPortalSession(s, customerId) ==
  [stripe |-> Called(s, [method |-> "billingPortal.sessions.create",
                         customer |-> customerId]),
   threw |-> FALSE,
   data |-> [url |-> "portal"]]

updateSubscriptionSeatsAlwaysAdding(s, subscriptionId, seatCount) ==
  LET got == subscriptionsRetrieve(s, subscriptionId)
  IN IF got.threw THEN [stripe |-> got.stripe, threw |-> TRUE]
     ELSE subscriptionsUpdate(got.stripe, subscriptionId,
            got.data.items
              \o <<[price |-> perSeatPriceId, quantity |-> Some(seatCount)]>>)
\* updateSubscriptionSeats(subscriptionId, seatCount): the per-seat item is
\* updated in place when the subscription has one, added otherwise
updateSubscriptionSeats(s, subscriptionId, seatCount) ==
  LET got == subscriptionsRetrieve(s, subscriptionId)
      items == got.data.items
      perSeatItem == Find(items, {i \in 1..Len(items) :
                                    items[i].price = perSeatPriceId})
  IN IF got.threw THEN [stripe |-> got.stripe, threw |-> TRUE]
     ELSE IF perSeatItem # None
     THEN subscriptionItemsUpdate(got.stripe, perSeatItem[1].id, seatCount)
     ELSE subscriptionsUpdate(got.stripe, subscriptionId,
            [i \in 1..Len(items) |->
               [id |-> items[i].id, price |-> items[i].price,
                quantity |-> items[i].quantity]]
              \o <<[price |-> perSeatPriceId, quantity |-> Some(seatCount)]>>)

reportUsageCreatingItem(s, subscriptionId, quantity, timestamp) ==
  LET got == subscriptionsRetrieve(s, subscriptionId)
      items == got.data.items
      meteredItem == Find(items, {i \in 1..Len(items) :
                                    items[i].price = meteredUsagePriceId})
  IN IF got.threw
     THEN [stripe |-> got.stripe, threw |-> TRUE, data |-> [id |-> NULL]]
     ELSE IF meteredItem = None
     THEN LET made == subscriptionsUpdate(got.stripe, subscriptionId,
                        <<[price |-> meteredUsagePriceId, quantity |-> None]>>)
              item == made.stripe.subscriptions[subscriptionId][Len(items) + 1]
          IN createUsageRecord(made.stripe, item.id, quantity, timestamp)
     ELSE createUsageRecord(got.stripe, meteredItem[1].id, quantity, timestamp)
\* reportUsage(subscriptionId, quantity, timestamp): a usage record on the
\* metered item; throws when the subscription has none
reportUsage(s, subscriptionId, quantity, timestamp) ==
  LET got == subscriptionsRetrieve(s, subscriptionId)
      items == got.data.items
      meteredItem == Find(items, {i \in 1..Len(items) :
                                    items[i].price = meteredUsagePriceId})
  IN IF got.threw \/ meteredItem = None
     THEN [stripe |-> got.stripe, threw |-> TRUE, data |-> [id |-> NULL]]
     ELSE createUsageRecord(got.stripe, meteredItem[1].id, quantity, timestamp)

(***************************************************************************)
(* lib/auth/helpers                                                        *)
(***************************************************************************)
Users == {"u_owner", "u_admin", "u_member"}

\* table organization_members: u_owner owns org_a; u_admin is an admin of
\* both organizations; u_member is a member of org_a and owns org_b
organization_members ==
  {[user_id |-> "u_owner", organization_id |-> "org_a", role |-> "owner"],
   [user_id |-> "u_admin", organization_id |-> "org_a", role |-> "admin"],
   [user_id |-> "u_admin", organization_id |-> "org_b", role |-> "admin"],
   [user_id |-> "u_member", organization_id |-> "org_a", role |-> "member"],
   [user_id |-> "u_member", organization_id |-> "org_b", role |-> "owner"]}

roleHierarchy(role) ==
  CASE role = "member" -> 0
    [] role = "admin" -> 1
    [] role = "owner" -> 2

hasRequiredRole(userRole, requiredRole) ==
  roleHierarchy(userRole) >= roleHierarchy(requiredRole)

\* requireOrganizationAccess(organizationId, userRole) for the signed-in
\* user: the membership row joined with its organization, or a redirect
\* (which throws) when the query fails, finds no single row, or the role is
\* too low; userRole = NULL asks for no particular role
requireOrganizationAccess(orgs, status, user, organizationId, userRole) ==
  LET data == {m \in organization_members :
                 /\ m.user_id = user
                 /\ m.organization_id = organizationId
                 /\ organizationId \in DOMAIN orgs}
      row == CHOOSE m \in data : TRUE
  IN IF status # "up" \/ Cardinality(data) # 1
     THEN [redirected |-> TRUE, organization |-> NewOrganization(NULL),
           userRole |-> NULL]
     ELSE IF userRole # NULL /\ ~hasRequiredRole(row.role, userRole)
     THEN [redirected |-> TRUE, organization |-> NewOrganization(NULL),
           userRole |-> row.role]
     ELSE [redirected |-> FALSE, organization |-> orgs[organizationId],
           userRole |-> row.role]

(***************************************************************************)
(* The billing routes                                                      *)
(***************************************************************************)

\* NextResponse.json(body, { status }) together with the provider as the
\* route leaves it
Reply(status, body, s) == [status |-> status, body |-> body, stripe |-> s]

\* what a route keeps of the state at the arrival of its request
Entry == [kind |-> "entry", stripe |-> stripe, usage_records |-> usage_records]

SeatCountNeverNegative(seatCount) == FALSE
\* seatCount < 0
SeatCountNegative(seatCount) == seatCount[1] < 0

MissingCustomerNever(organization) == FALSE
\* !organization.stripe_customer_id
MissingCustomer(organization) == ~Truthy(organization.stripe_customer_id)

\* POST /api/billing/update-seats
POST_update_seats(req) ==
  LET access == requireOrganizationAccess(organizations, store, req.user,
                                          req.organizationId, "admin")
      subscriptionId == access.organization.stripe_subscription_id
      done == updateSubscriptionSeats(stripe, subscriptionId, req.seatCount[1])
      out == IF ~Truthy(req.organizationId) \/ req.seatCount = None
             THEN Reply(400, "Missing required fields", stripe)
             ELSE IF SeatCountNegative(req.seatCount)
             THEN Reply(400, "Seat count must be non-negative", stripe)
             ELSE IF access.redirected
             THEN Reply(500, "Failed to update seats", stripe)
             ELSE IF ~Truthy(subscriptionId)
             THEN Reply(400, "No active subscription found", stripe)
             ELSE IF done.threw
             THEN Reply(500, "Failed to update seats", done.stripe)
             ELSE Reply(200, "success", done.stripe)
  IN /\ request' = req
     /\ before' = organizations
     /\ atEntry' = Entry
     /\ response' = [kind |-> "response", status |-> out.status,
                     body |-> out.body]
     /\ stripe' = out.stripe
     /\ UNCHANGED <<organizations, store>>
     /\ UNCHANGED ledgerVars

\* POST /api/billing/create-checkout-session
POST_create_checkout_session(req) ==
  LET access == requireOrganizationAccess(organizations, store, req.user,
                                          req.organizationId, "admin")
      \* seatCount || 1
      seatCount == IF req.seatCount = None \/ req.seatCount[1] = 0
                   THEN Some(1) ELSE req.seatCount
      session == createCheckoutSession(stripe, req.organizationId, req.priceId,
                   access.organization.stripe_customer_id, req.isPerSeat,
                   seatCount)
      out == IF ~Truthy(req.organizationId) \/ ~Truthy(req.priceId)
             THEN Reply(400, "Missing required fields", stripe)
             ELSE IF access.redirected
             THEN Reply(500, "Failed to create checkout session", stripe)
             ELSE IF MissingCustomer(access.organization)
             THEN Reply(400, "No Stripe customer found for organization",
                        stripe)
             ELSE Reply(200, session.data.id, session.stripe)
  IN /\ request' = req
     /\ before' = organizations
     /\ atEntry' = Entry
     /\ response' = [kind |-> "response", status |-> out.status,
                     body |-> out.body]
     /\ stripe' = out.stripe
     /\ UNCHANGED <<organizations, store>>
     /\ UNCHANGED ledgerVars

\* POST /api/billing/create-portal-session
POST_create_portal_session(req) ==
  LET access == requireOrganizationAccess(organizations, store, req.user,
                                          req.organizationId, "admin")
      session == createCustomerPortalSession(stripe,
                   access.organization.stripe_customer_id)
      out == IF ~Truthy(req.organizationId)
             THEN Reply(400, "Missing organization ID", stripe)
             ELSE IF access.redirected
             THEN Reply(500, "Failed to create portal session", stripe)
             ELSE IF MissingCustomer(access.organization)
             THEN Reply(400, "No Stripe customer found for organization",
                        stripe)
             ELSE Reply(200, session.data.url, session.stripe)
  IN /\ request' = req
     /\ before' = organizations
     /\ atEntry' = Entry
     /\ response' = [kind |-> "response", status |-> out.status,
                     body |-> out.body]
     /\ stripe' = out.stripe
     /\ UNCHANGED <<organizations, store>>
     /\ UNCHANGED ledgerVars

\* POST /api/billing/report-usage: the usage goes to the provider and then
\* into table usage_records. storeAtInsert is the state of the store when
\* the insert reaches it, after the calls to the provider; a store that is
\* down answers the insert with { error }, which the route does not read.
POST_report_usage_at(req, storeAtInsert) ==
  LET access == requireOrganizationAccess(organizations, store, req.user,
                                          req.organizationId, NULL)
      subscriptionId == access.organization.stripe_subscription_id
      usageRecord == reportUsage(stripe, subscriptionId, req.quantity[1],
                                 req.timestamp)
      row == NewRow(usage_records, req.organizationId, req.dimension,
                    req.quantity[1], UsageTimestamp(req.timestamp, now),
                    usageRecord.data.id)
      out == IF \/ ~Truthy(req.organizationId)
                \/ ~Truthy(req.dimension)
                \/ req.quantity = None
             THEN Reply(400, "Missing required fields", stripe)
             ELSE IF req.quantity[1] < 0
             THEN Reply(400, "Quantity must be non-negative", stripe)
             ELSE IF access.redirected
             THEN Reply(500, "Failed to report usage", stripe)
             ELSE IF ~Truthy(subscriptionId)
             THEN Reply(400, "No active subscription found", stripe)
             ELSE IF usageRecord.threw
             THEN Reply(500, "Failed to report usage", usageRecord.stripe)
             ELSE Reply(200, usageRecord.data.id, usageRecord.stripe)
      inserted == out.status = 200 /\ storeAtInsert = "up"
  IN /\ inserted => Len(usage_records) < MaxRecords
     /\ request' = req
     /\ before' = organizations
     /\ atEntry' = Entry
     /\ response' = [kind |-> "response", status |-> out.status,
                     body |-> out.body]
     /\ stripe' = out.stripe
     /\ usage_records' = IF inserted
                         THEN Append(usage_records, row)
                         ELSE usage_records
     /\ store' = storeAtInsert
     /\ UNCHANGED organizations
     /\ UNCHANGED <<now, call, result, pc>>

\* POST /api/billing/report-usage with the store answering throughout
POST_report_usage(req) == POST_report_usage_at(req, store)

(***************************************************************************)
(* SpecBilling: billing commands, one at a time, for an organization with  *)
(* a subscription (org_a) and one with neither customer nor subscription   *)
(* (org_b)                                                                 *)
(***************************************************************************)

\* the line items of sub_1 when the commands start: a plan bought at
\* checkout, the same with a metered item, or a per-seat checkout
InitialItems ==
  {<<[id |-> "si_1_sub_1", price |-> "price_pro", quantity |-> Some(1)]>>,
   <<[id |-> "si_1_sub_1", price |-> "price_pro", quantity |-> Some(1)],
     [id |-> "si_2_sub_1", price |-> meteredUsagePriceId, quantity |-> None]>>,
   <<[id |-> "si_1_sub_1", price |-> perSeatPriceId, quantity |-> Some(1)]>>}

\* the provider holds sub_1 of org_a, and the webhook has written it onto
\* the row of org_a
InitBilling ==
  /\ InitLedger
  /\ \E items \in InitialItems :
       /\ stripe = [customers |-> <<Customer("cus_a", "owner@a.test", "org_a")>>,
                    subscriptions |-> [sub \in {"sub_1"} |-> items],
                    usage_records |-> <<>>,
                    calls |-> <<>>]
       /\ organizations =
            handleSubscriptionUpdate(InitOrganizations,
              [id |-> "sub_1", status |-> "active", items |-> items,
               metadata |-> [organization_id |-> "org_a"]], 0)
  /\ before = organizations
  /\ request = NoRequest
  /\ response = NoResponse
  /\ store = "up"
  /\ atEntry = NoEntry

OrganizationIds == {NULL, "org_a", "org_b"}
SeatCounts == {None} \cup {Some(n) : n \in (-1)..MaxSeats}
CheckoutSeatCounts == {None} \cup {Some(n) : n \in 0..MaxSeats}
Flags == {None, Some(TRUE), Some(FALSE)}
UsageQuantities == {None} \cup {Some(n) : n \in (-1)..MaxQty}

UpdateSeatsRequests ==
  [kind : {"update-seats"}, user : Users, organizationId : OrganizationIds,
   seatCount : SeatCounts]
CheckoutRequests ==
  [kind : {"create-checkout-session"}, user : Users,
   organizationId : OrganizationIds,
   priceId : {NULL, "price_pro", perSeatPriceId},
   isPerSeat : Flags, seatCount : CheckoutSeatCounts]
PortalRequests ==
  [kind : {"create-portal-session"}, user : Users,
   organizationId : OrganizationIds]
ReportUsageRequests ==
  [kind : {"report-usage"}, user : Users, organizationId : OrganizationIds,
   dimension : {NULL, "api_calls"}, quantity : UsageQuantities,
   timestamp : {None}]

\* a signed-in user sends a billing command
UpdateSeats ==
  /\ request = NoRequest
  /\ \E req \in UpdateSeatsRequests : POST_update_seats(req)

CreateCheckoutSession ==
  /\ request = NoRequest
  /\ \E req \in CheckoutRequests : POST_create_checkout_session(req)

CreatePortalSession ==
  /\ request = NoRequest
  /\ \E req \in PortalRequests : POST_create_portal_session(req)

ReportUsage ==
  /\ request = NoRequest
  /\ \E req \in ReportUsageRequests : POST_report_usage(req)

NextBilling ==
  \/ UpdateSeats
  \/ CreateCheckoutSession
  \/ CreatePortalSession
  \/ ReportUsage
  \/ Respond

SpecBilling == InitBilling /\ [][NextBilling]_vars

\* the indices of the per-seat items among items
PerSeatItems(items) ==
  {i \in 1..Len(items) : items[i].price = perSeatPriceId}

\* the subscription the organization of the request had at its arrival
SubscriptionOfRequest == before[request.organizationId].stripe_subscription_id

\* C15: updateSubscriptionSeats(sub, n) on a subscription without a per-seat
\* item leaves exactly one per-seat item of quantity n and every other item
\* as it was; on a subscription that has one it sets that same item to n and
\* adds nothing. So after each call of a sequence there is exactly one
\* per-seat item, with the last requested quantity.
C15_OnePerSeatItem ==
  (request.kind = "update-seats" /\ response.status = 200) =>
    LET old == atEntry.stripe.subscriptions[SubscriptionOfRequest]
        new == stripe.subscriptions[SubscriptionOfRequest]
    IN /\ Cardinality(PerSeatItems(new)) = 1
       /\ \A i \in PerSeatItems(new) :
            new[i].quantity = Some(request.seatCount[1])
       /\ IF PerSeatItems(old) = {}
          THEN /\ Len(new) = Len(old) + 1
               /\ \A i \in 1..Len(old) : new[i] = old[i]
          ELSE /\ Len(new) = Len(old)
               /\ PerSeatItems(new) = PerSeatItems(old)
               /\ \A i \in 1..Len(old) :
                    /\ new[i].id = old[i].id
                    /\ i \notin PerSeatItems(old) => new[i] = old[i]

\* the per-seat item that an earlier call added after the plan and the
\* metered item went from two seats to one
C15_Witness ==
  /\ request.kind = "update-seats"
  /\ response.status = 200
  /\ request.seatCount = Some(1)
  /\ LET old == atEntry.stripe.subscriptions["sub_1"]
         new == stripe.subscriptions["sub_1"]
     IN /\ Len(old) = 3
        /\ old[3].price = perSeatPriceId
        /\ old[3].quantity = Some(2)
        /\ old[3].id = "si_3_sub_1"
        /\ new[3].id = old[3].id
        /\ new[3].quantity = Some(1)
        /\ Len(new) = 3

\* C16: a seat update with a negative seat count is rejected with a
\* validation error (400), and the provider is not called: no subscription is
\* retrieved and none is updated.
C16_NegativeSeatCountRejected ==
  (/\ request.kind = "update-seats"
   /\ request.seatCount # None
   /\ request.seatCount[1] < 0) =>
     /\ response.status = 400
     /\ Truthy(request.organizationId) =>
          response.body = "Seat count must be non-negative"
     /\ stripe.calls = <<>>
     /\ stripe = atEntry.stripe

\* the owner of org_a, whose subscription has a per-seat item, asked for -1
\* seats
C16_Witness ==
  /\ request.kind = "update-seats"
  /\ request.user = "u_owner"
  /\ request.organizationId = "org_a"
  /\ request.seatCount = Some(-1)
  /\ PerSeatItems(stripe.subscriptions["sub_1"]) # {}
  /\ response.status = 400
  /\ stripe.calls = <<>>

\* C18: for every seat count n >= 0 supplied to create-checkout-session, a
\* per-seat checkout opens a session whose single line item has quantity n,
\* and a checkout that is not per-seat opens one whose single line item has
\* quantity 1, whatever seat count was supplied.
C18_CheckoutQuantity ==
  (request.kind = "create-checkout-session" /\ response.status = 200) =>
    /\ Len(stripe.calls) = 1
    /\ stripe.calls[1].method = "checkout.sessions.create"
    /\ (request.isPerSeat = Some(TRUE) /\ request.seatCount # None) =>
         stripe.calls[1].quantity = request.seatCount[1]
    /\ request.isPerSeat # Some(TRUE) => stripe.calls[1].quantity = 1

\* the caller may run the admin-only billing commands on the organization
\* of the request
AdminOfRequest ==
  ~requireOrganizationAccess(before, store, request.user,
                             request.organizationId, "admin").redirected

\* C19: for an organization whose stripe_customer_id is null,
\* create-checkout-session and create-portal-session fail without any call
\* to the provider and without changing any state; a request that carries
\* its required fields and comes from an admin of the organization fails
\* with the precondition error, 400.
C19_NoCustomerRejected ==
  (/\ request.kind \in {"create-checkout-session", "create-portal-session"}
   /\ request.organizationId \in Orgs
   /\ before[request.organizationId].stripe_customer_id = NULL) =>
     /\ response.status # 200
     /\ stripe.calls = <<>>
     /\ stripe = atEntry.stripe
     /\ organizations = before
     /\ usage_records = atEntry.usage_records
     /\ (/\ AdminOfRequest
         /\ request.kind = "create-checkout-session" => Truthy(request.priceId)) =>
          /\ response.status = 400
          /\ response.body = "No Stripe customer found for organization"

\* the owner of org_b, which has no customer, asked for a checkout of the
\* pro plan
C19_Witness ==
  /\ request.kind = "create-checkout-session"
  /\ request.user = "u_member"
  /\ request.organizationId = "org_b"
  /\ request.priceId = "price_pro"
  /\ before["org_b"].stripe_customer_id = NULL
  /\ response.status = 400
  /\ response.body = "No Stripe customer found for organization"
  /\ stripe.calls = <<>>

\* the report-usage request being served reached reportUsage: its fields
\* are present, its quantity is not negative, its caller is a member of the
\* organization, and the organization has a subscription
ReachedReportUsage ==
  /\ request.kind = "report-usage"
  /\ Truthy(request.organizationId)
  /\ Truthy(request.dimension)
  /\ request.quantity # None
  /\ request.quantity[1] >= 0
  /\ ~requireOrganizationAccess(before, store, request.user,
                                request.organizationId, NULL).redirected
  /\ Truthy(SubscriptionOfRequest)

\* the indices of the metered items among items
MeteredItems(items) ==
  {i \in 1..Len(items) : items[i].price = meteredUsagePriceId}

\* C20: reportUsage on a subscription without a metered item fails with an
\* error, creating neither a usage record at the provider nor a subscription
\* item; the report-usage route then answers 500 and writes no row into
\* usage_records.
C20_NoMeteredItemFails ==
  (/\ ReachedReportUsage
   /\ MeteredItems(atEntry.stripe.subscriptions[SubscriptionOfRequest]) = {}) =>
     /\ reportUsage(atEntry.stripe, SubscriptionOfRequest, request.quantity[1],
                    request.timestamp).threw
     /\ response.status = 500
     /\ stripe.usage_records = atEntry.stripe.usage_records
     /\ stripe.subscriptions = atEntry.stripe.subscriptions
     /\ \A i \in 1..Len(stripe.calls) :
          stripe.calls[i].method = "subscriptions.retrieve"
     /\ usage_records = atEntry.usage_records

\* a member of org_a reported one api call on a subscription that has the
\* pro plan and a per-seat item but no metered item
C20_Witness ==
  /\ ReachedReportUsage
  /\ request.user = "u_member"
  /\ request.organizationId = "org_a"
  /\ request.quantity = Some(1)
  /\ MeteredItems(atEntry.stripe.subscriptions["sub_1"]) = {}
  /\ Len(atEntry.stripe.subscriptions["sub_1"]) = 2
  /\ Len(stripe.calls) = 1
  /\ response.status = 500
  /\ usage_records = <<>>

(***************************************************************************)
(* SpecCustomer: createStripeCustomer called for the organizations, one    *)
(* call at a time                                                          *)
(***************************************************************************)
Emails == {"owner@a.test", "admin@a.test"}

\* a caller runs createStripeCustomer(organization, email) for the row of
\* an organization
CallCreateStripeCustomer(organizationId, email) ==
  LET made == createStripeCustomer(stripe, organizationId, email)
  IN /\ call = Idle
     /\ Len(stripe.customers) < MaxCustomers
     /\ call' = [op |-> "createStripeCustomer", org |-> organizationId,
                 email |-> email]
     /\ result' = [op |-> "createStripeCustomer", customer |-> made.data]
     /\ stripe' = made.stripe
     /\ atEntry' = Entry
     /\ UNCHANGED <<usage_records, now, pc, store>>
     /\ UNCHANGED webhookVars

\* the customer goes back to the caller
ReturnCustomer ==
  /\ call # Idle
  /\ call' = Idle
  /\ result' = NoResult
  /\ stripe' = [stripe EXCEPT !.calls = <<>>]
  /\ atEntry' = NoEntry
  /\ UNCHANGED <<usage_records, now, pc, store>>
  /\ UNCHANGED webhookVars

InitCustomer == InitLedger /\ InitNoWebhook /\ InitNoBilling

NextCustomer ==
  \/ \E organizationId \in Orgs, email \in Emails :
       CallCreateStripeCustomer(organizationId, email)
  \/ ReturnCustomer

SpecCustomer == InitCustomer /\ [][NextCustomer]_vars

\* the customers the provider holds for an organization
CustomersOf(organizationId) ==
  {i \in 1..Len(stripe.customers) :
     stripe.customers[i].metadata.organization_id = organizationId}

\* C17: customer creation is check-before-create: a customer is created for
\* an organization only if its stripe_customer_id is null, so after any
\* sequence of calls the provider holds at most one customer per organization.
C17_CheckBeforeCreate ==
  /\ \A o \in Orgs : Cardinality(CustomersOf(o)) <= 1
  /\ (/\ call.op = "createStripeCustomer"
      /\ organizations[call.org].stripe_customer_id # NULL) =>
        stripe.customers = atEntry.stripe.customers

BillingKinds ==
  {"create-checkout-session", "create-portal-session", "update-seats",
   "report-usage"}

\* C21: a command endpoint (create-checkout-session, create-portal-session,
\* update-seats, report-usage) calls the provider or writes the usage table
\* only when the caller is a member of the target organization with role
\* admin or owner; a caller with role member causes neither.
C21_CommandsNeedAdmin ==
  (/\ request.kind \in BillingKinds
   /\ \/ stripe.calls # <<>>
      \/ usage_records # atEntry.usage_records) =>
     AdminOfRequest

(***************************************************************************)
(* SpecClient: the EdgeCaseTester component of the dashboard next to the   *)
(* webhook route. The component writes table organizations through the     *)
(* browser client; whether the store's row policy lets the update through  *)
(* is decided by the store, and the component handles both answers.        *)
(***************************************************************************)

\* the four updates testBillingEdgeCases issues, in order
testCases ==
  <<[subscription_status |-> "incomplete", subscription_plan |-> "starter"],
    [subscription_status |-> "past_due", subscription_plan |-> "pro"],
    [subscription_status |-> "canceled", subscription_plan |-> "enterprise"],
    [subscription_status |-> "trialing", subscription_plan |-> "starter"]>>

\* the table after the updates `cases` are sent one after the other, the
\* store accepting those of `accepted`
RECURSIVE UpdateEach(_, _, _, _)
UpdateEach(orgs, organizationId, cases, accepted) ==
  IF cases = <<>> THEN orgs
  ELSE UpdateEach(IF Head(accepted)
                  THEN UpdateWhereId(orgs, organizationId, Head(cases))
                  ELSE orgs,
                  organizationId, Tail(cases), Tail(accepted))

\* EdgeCaseTester.testSubscriptionStatusChange: one update of
\* subscription_status and updated_at on the component's organization
testSubscriptionStatusChange(organizationId) ==
  /\ request = NoRequest
  /\ request' = [kind |-> "client", op |-> "testSubscriptionStatusChange",
                 organizationId |-> organizationId]
  /\ before' = organizations
  /\ \E accepted \in BOOLEAN :
       /\ organizations' =
            IF accepted
            THEN UpdateWhereId(organizations, organizationId,
                               [subscription_status |-> "past_due",
                                updated_at |-> now])
            ELSE organizations
       /\ response' = [kind |-> "results", errors |-> <<~accepted>>]
  /\ UNCHANGED ledgerVars
  /\ UNCHANGED billingVars

\* EdgeCaseTester.testBillingEdgeCases: the four updates of testCases, each
\* answered by the store on its own
testBillingEdgeCases(organizationId) ==
  /\ request = NoRequest
  /\ request' = [kind |-> "client", op |-> "testBillingEdgeCases",
                 organizationId |-> organizationId]
  /\ before' = organizations
  /\ \E accepted \in [1..Len(testCases) -> BOOLEAN] :
       /\ organizations' =
            UpdateEach(organizations, organizationId, testCases, accepted)
       /\ response' = [kind |-> "results",
                       errors |-> [i \in 1..Len(testCases) |-> ~accepted[i]]]
  /\ UNCHANGED ledgerVars
  /\ UNCHANGED billingVars

\* the dashboard mounts the component for one of the organizations
RunSubscriptionStatusChange ==
  \E o \in Orgs : testSubscriptionStatusChange(o)

RunBillingEdgeCases ==
  \E o \in Orgs : testBillingEdgeCases(o)

NextClient ==
  \/ DeliverVerified
  \/ RunSubscriptionStatusChange
  \/ RunBillingEdgeCases
  \/ Respond

SpecClient == InitWebhook /\ [][NextClient]_vars

\* C22: subscription_status, subscription_plan, seat_count and
\* stripe_subscription_id of an organization are written by the webhook
\* handler only: whatever else runs leaves the four fields of every
\* organization as they were.
C22_OnlyWebhookWritesSnapshot ==
  request.kind # "webhook" =>
    \A o \in Orgs : Snapshot(organizations[o]) = Snapshot(before[o])

(***************************************************************************)
(* SpecIdentity: organization creation, the billing commands and the       *)
(* webhook route over the same table                                       *)
(***************************************************************************)

\* user.email of the signed-in user
Email(user) == user \o "@users.test"

\* the id the store gives the next inserted organization
NextOrganizationId(orgs) == "org_" \o ToString(Cardinality(DOMAIN orgs) + 1)

\* .update({ stripe_customer_id }) without .eq(): every row takes the value
SetStripeCustomerIdOfEveryRow(orgs, organizationId, customerId) ==
  [o \in DOMAIN orgs |-> [orgs[o] EXCEPT !.stripe_customer_id = customerId]]

\* the table with the stripe_customer_id of row organizationId set
SetStripeCustomerId(orgs, organizationId, customerId) ==
  UpdateWhereId(orgs, organizationId, [stripe_customer_id |-> customerId])

\* POST /api/organizations: the slug check, the insert of the row, the
\* Stripe customer, the update of stripe_customer_id on the new row. The
\* owner membership the route inserts last belongs to the new organization,
\* which no billing request of this model names.
POST_organizations(req) ==
  LET taken == {o \in DOMAIN organizations :
                  organizations[o].slug = req.slug}
      id == NextOrganizationId(organizations)
      inserted == [o \in DOMAIN organizations \cup {id} |->
                     IF o = id
                     THEN WithSlug(req.slug, NewOrganization(NULL))
                     ELSE organizations[o]]
      made == createStripeCustomer(stripe, id, Email(req.user))
      out == IF ~Truthy(req.user)
             THEN [status |-> 500, body |-> "Failed to create organization",
                   stripe |-> stripe, organizations |-> organizations]
             ELSE IF ~Truthy(req.name) \/ ~Truthy(req.slug)
             THEN [status |-> 400, body |-> "Name and slug are required",
                   stripe |-> stripe, organizations |-> organizations]
             ELSE IF store = "up" /\ taken # {}
             THEN [status |-> 400, body |-> "Organization slug already exists",
                   stripe |-> stripe, organizations |-> organizations]
             ELSE IF store # "up"
             THEN [status |-> 500, body |-> "Failed to create organization",
                   stripe |-> stripe, organizations |-> organizations]
             ELSE [status |-> 200, body |-> id, stripe |-> made.stripe,
                   organizations |->
                     SetStripeCustomerId(inserted, id, made.data.id)]
  IN /\ request' = req
     /\ before' = organizations
     /\ atEntry' = Entry
     /\ response' = [kind |-> "response", status |-> out.status,
                     body |-> out.body]
     /\ stripe' = out.stripe
     /\ organizations' = out.organizations
     /\ UNCHANGED store
     /\ UNCHANGED ledgerVars

Slugs == {NULL, "acme", "nova"}

OrganizationRequests ==
  [kind : {"organizations"}, user : {NULL, "u_member"},
   name : {NULL, "Nova"}, slug : Slugs]

\* a user asks for a new organization
CreateOrganization ==
  /\ request = NoRequest
  /\ \E req \in OrganizationRequests : POST_organizations(req)

\* the owner of org_a sends a well-formed billing command about one of the
\* organizations
OwnerUpdatesSeats ==
  /\ request = NoRequest
  /\ \E o \in Orgs :
       POST_update_seats([kind |-> "update-seats", user |-> "u_owner",
                          organizationId |-> o, seatCount |-> Some(MaxSeats)])

OwnerCreatesCheckoutSession ==
  /\ request = NoRequest
  /\ \E o \in Orgs :
       POST_create_checkout_session(
         [kind |-> "create-checkout-session", user |-> "u_owner",
          organizationId |-> o, priceId |-> "price_pro", isPerSeat |-> None,
          seatCount |-> None])

OwnerCreatesPortalSession ==
  /\ request = NoRequest
  /\ \E o \in Orgs :
       POST_create_portal_session([kind |-> "create-portal-session",
                                   user |-> "u_owner", organizationId |-> o])

OwnerReportsUsage ==
  /\ request = NoRequest
  /\ \E o \in Orgs :
       POST_report_usage([kind |-> "report-usage", user |-> "u_owner",
                          organizationId |-> o, dimension |-> "api_calls",
                          quantity |-> Some(1), timestamp |-> None])

NextIdentity ==
  \/ CreateOrganization
  \/ DeliverVerified
  \/ OwnerUpdatesSeats
  \/ OwnerCreatesCheckoutSession
  \/ OwnerCreatesPortalSession
  \/ OwnerReportsUsage
  \/ Respond

SpecIdentity == InitBilling /\ [][NextIdentity]_vars

\* C23: stripe_customer_id of an organization is set at most once: once it
\* is non-null no step (organization creation, billing command, webhook
\* event) changes or clears it, and no row disappears.
C23_CustomerIdImmutable ==
  [][\A o \in DOMAIN organizations :
       organizations[o].stripe_customer_id # NULL =>
         /\ o \in DOMAIN organizations'
         /\ organizations'[o].stripe_customer_id =
              organizations[o].stripe_customer_id]_vars

\* an organization was created next to org_a, got its customer, and a
\* verified subscription event about org_a has been processed since
C23_Witness ==
  /\ DOMAIN organizations # Orgs
  /\ \A o \in DOMAIN organizations \ Orgs :
       organizations[o].stripe_customer_id # NULL
  /\ Verified(WritingKinds)
  /\ organizations["org_a"] # before["org_a"]
  /\ organizations["org_a"].stripe_customer_id = "cus_a"

\* C24: in every reachable state the subscription_status of each
\* organization is one of active, trialing, past_due, canceled, incomplete,
\* or unset, also after a subscription created/updated event whose provider
\* status is passed through.
C24_StatusInEnum ==
  \A o \in Orgs :
    organizations[o].subscription_status \in
      {"active", "trialing", "past_due", "canceled", "incomplete", NULL}

\* the keys of the configured plans whose price is the price of an item of
\* the subscription
PlansOf(subscription) ==
  {PlanKeys[k] : k \in {k \in 1..Len(PlanKeys) :
                          \E i \in 1..Len(subscription.items) :
                            subscription.items[i].price =
                              PlanPriceId(PlanKeys[k])}}

\* C25: the plan written for a verified subscription created/updated event
\* is the key of the configured plan whose price is the price of an item of
\* the subscription, whatever the order of the items and whatever other
\* items there are; it is null only when no item has a configured plan
\* price.
C25_PlanOfAnyItem ==
  Verified({"customer.subscription.created",
            "customer.subscription.updated"}) =>
    LET subscription == request.body.object
        organizationId == subscription.metadata.organization_id
    IN organizationId \in Orgs =>
         IF PlansOf(subscription) = {}
         THEN organizations[organizationId].subscription_plan = NULL
         ELSE organizations[organizationId].subscription_plan \in
                PlansOf(subscription)

\* C26: the seat count written for a verified subscription created/updated
\* event is the quantity of the subscription's item at the per-seat price,
\* and 0 when there is no such item or the item has no quantity; seat_count
\* of every organization is a non-negative integer in every reachable state.
C26_SeatCountOfPerSeatItem ==
  /\ \A o \in Orgs : organizations[o].seat_count \in Nat
  /\ Verified({"customer.subscription.created",
               "customer.subscription.updated"}) =>
       LET subscription == request.body.object
           items == subscription.items
           organizationId == subscription.metadata.organization_id
       IN organizationId \in Orgs =>
            IF PerSeatItems(items) = {}
            THEN organizations[organizationId].seat_count = 0
            ELSE \E i \in PerSeatItems(items) :
                   organizations[organizationId].seat_count =
                     IF items[i].quantity = None THEN 0
                     ELSE items[i].quantity[1]

\* a subscription whose second item is the per-seat item, with a quantity,
\* reached org_a while its seat_count was 0
C26_Witness ==
  /\ Verified({"customer.subscription.updated"})
  /\ request.body.object.metadata.organization_id = "org_a"
  /\ Len(request.body.object.items) = 2
  /\ request.body.object.items[1].price = "price_pro"
  /\ request.body.object.items[1].quantity = None
  /\ request.body.object.items[2].price = perSeatPriceId
  /\ request.body.object.items[2].quantity = Some(1)
  /\ before["org_a"].seat_count = 0
  /\ organizations["org_a"].seat_count = 1

(***************************************************************************)
(* SpecUsageOutage: report-usage requests with a store that may stop       *)
(* answering while the route is at the provider                            *)
(***************************************************************************)

\* a report-usage request; the store may fail before the insert
ReportUsageAcrossOutage ==
  /\ request = NoRequest
  /\ Len(stripe.usage_records) < MaxRecords
  /\ \E req \in ReportUsageRequests, storeAtInsert \in {store, "down"} :
       POST_report_usage_at(req, storeAtInsert)

NextUsageOutage ==
  \/ ReportUsageAcrossOutage
  \/ StoreFails
  \/ StoreRecovers
  \/ Respond

SpecUsageOutage == InitBilling /\ [][NextUsageOutage]_vars

\* C27: whenever report-usage answers success with a usageRecordId, table
\* usage_records holds a record of the request's organization, dimension
\* and quantity carrying that provider usage id; a failed insert after a
\* successful provider report is never answered as success.
C27_SuccessMeansRecorded ==
  (request.kind = "report-usage" /\ response.status = 200) =>
    \E i \in 1..Len(usage_records) :
      /\ usage_records[i].organization_id = request.organizationId
      /\ usage_records[i].dimension = request.dimension
      /\ usage_records[i].quantity = request.quantity[1]
      /\ usage_records[i].stripe_usage_record_id = response.body

(***************************************************************************)
(* SpecLookupOutage: trackUsage calls with a store that may stop and       *)
(* resume answering between the lookup and the insert                      *)
(***************************************************************************)
NextLookupOutage ==
  \/ \E c \in Callers, org \in Orgs, k \in RaceKeys :
       trackUsageLookup(c, org, "api_calls", 1, None, k)
  \/ \E c \in Callers : trackUsageInsert(c)
  \/ \E c \in Callers : trackUsageReturn(c)
  \/ StoreFails
  \/ StoreRecovers

SpecLookupOutage == InitRace /\ [][NextLookupOutage]_vars

\* C28: trackUsage inserts a record for an idempotency key only when its
\* lookup has established that no record carries the key: after a lookup
\* that failed with a store error, or that matched more than one row, it
\* does not insert.
C28_InsertOnlyAfterCleanLookup ==
  \A c \in Callers :
    (pc[c].at = "returned" /\ ~pc[c].alreadyRecorded) =>
      pc[c].lookup \in {"none", "skipped"}

(***************************************************************************)
(* SpecTenant: webhook deliveries served concurrently. A delivery is       *)
(* verified on arrival; its handler then sends its one update to the       *)
(* store, which applies it to the table as it is at that moment.           *)
(***************************************************************************)

\* the events Stripe sends about an organization
TenantEvents ==
  [type : {"customer.subscription.updated"},
   object : [id : {"sub_1"}, status : {"active"},
             items : {<<>>,
                      <<[price |-> "price_pro", quantity |-> None]>>,
                      <<[price |-> perSeatPriceId, quantity |-> Some(1)]>>},
             metadata : [organization_id : Orgs]]]
  \cup [type : {"customer.subscription.deleted"},
        object : [id : {"sub_1"}, status : {"active"}, items : {<<>>},
                  metadata : [organization_id : Orgs]]]
  \cup [type : {"invoice.payment_failed"},
        object : [id : {"in_1"}, metadata : [organization_id : Orgs]]]

TenantRequests ==
  [kind : {"webhook"}, signature : {"sig_forged", ValidSignature},
   body : TenantEvents]

\* POST /api/webhooks/stripe of worker c, up to the switch: the signature
\* check
WebhookArrives(c, req) ==
  /\ pc[c].at = "idle"
  /\ pc' = [pc EXCEPT ![c] =
              IF ~Truthy(req.signature) \/ ~constructEvent(req.body, req.signature)
              THEN [at |-> "answered", status |-> 400, request |-> req]
              ELSE [at |-> "handler", request |-> req]]
  /\ UNCHANGED <<usage_records, now, call, result>>
  /\ UNCHANGED webhookVars
  /\ UNCHANGED billingVars

\* the handler of worker c sends its update and the route acknowledges
WebhookHandles(c) ==
  /\ pc[c].at = "handler"
  /\ organizations' =
       IF store = "up"
       THEN Dispatch(organizations, pc[c].request.body, now).organizations
       ELSE organizations
  /\ pc' = [pc EXCEPT ![c] = [at |-> "answered", status |-> 200,
                              request |-> pc[c].request]]
  /\ UNCHANGED <<usage_records, now, call, result>>
  /\ UNCHANGED <<request, response, before>>
  /\ UNCHANGED billingVars

\* the response of worker c goes back to Stripe
WebhookAnswers(c) ==
  /\ pc[c].at = "answered"
  /\ pc' = [pc EXCEPT ![c] = [at |-> "idle"]]
  /\ UNCHANGED <<usage_records, now, call, result>>
  /\ UNCHANGED webhookVars
  /\ UNCHANGED billingVars

NextTenant ==
  \/ \E c \in Callers, req \in TenantRequests : WebhookArrives(c, req)
  \/ \E c \in Callers : WebhookHandles(c)
  \/ \E c \in Callers : WebhookAnswers(c)

SpecTenant == InitWebhook /\ [][NextTenant]_vars

\* C29: the handler of an event whose metadata names organization A changes
\* no field of the row of any other organization, whatever other deliveries
\* are in flight at that moment.
C29_TenantIsolation ==
  [][\A c \in Callers :
       (pc[c].at = "handler" /\ pc'[c].at = "answered") =>
         \A o \in Orgs :
           o # pc[c].request.body.object.metadata.organization_id =>
             organizations'[o] = organizations[o]]_vars

\* worker c1 has written org_a while worker c2 holds a verified event about
\* org_b, whose row an earlier event had already changed
C29_Witness ==
  /\ pc["c1"].at = "answered"
  /\ pc["c1"].status = 200
  /\ pc["c1"].request.body.object.metadata.organization_id = "org_a"
  /\ pc["c1"].request.body.type = "customer.subscription.deleted"
  /\ organizations["org_a"].subscription_status = "canceled"
  /\ pc["c2"].at = "handler"
  /\ pc["c2"].request.body.object.metadata.organization_id = "org_b"
  /\ organizations["org_b"].seat_count = 1
  /\ organizations["org_b"].subscription_status = "active"

(***************************************************************************)
(* SpecSeatsRace: updateSubscriptionSeats calls running concurrently on    *)
(* sub_1, another call's steps coming between the retrieve and the update  *)
(***************************************************************************)

\* updateSubscriptionSeats of caller c: stripe.subscriptions.retrieve
\* (line 80)
updateSubscriptionSeatsRetrieve(c, subscriptionId, seatCount) ==
  LET got == subscriptionsRetrieve(stripe, subscriptionId)
  IN /\ pc[c].at = "idle"
     /\ stripe' = got.stripe
     /\ pc' = [pc EXCEPT ![c] =
                 IF got.threw THEN [at |-> "threw"]
                 ELSE [at |-> "update", subscriptionId |-> subscriptionId,
                       seatCount |-> seatCount, subscription |-> got.data]]
     /\ UNCHANGED <<usage_records, now, call, result>>
     /\ UNCHANGED webhookVars
     /\ UNCHANGED <<store, atEntry>>

\* updateSubscriptionSeats of caller c: the update in place or the added
\* item (lines 82-107), decided on the subscription as it was retrieved.
\* Whether the provider takes a second item at a price the subscription
\* already has is the provider's decision: it may apply the update or
\* refuse it.
updateSubscriptionSeatsUpdate(c) ==
  LET subscriptionId == pc[c].subscriptionId
      items == pc[c].subscription.items
      perSeatItem == Find(items, {i \in 1..Len(items) :
                                    items[i].price = perSeatPriceId})
      inPlace == subscriptionItemsUpdate(stripe, perSeatItem[1].id,
                                         pc[c].seatCount)
      added == subscriptionsUpdate(stripe, subscriptionId,
                 [i \in 1..Len(items) |->
                    [id |-> items[i].id, price |-> items[i].price,
                     quantity |-> items[i].quantity]]
                   \o <<[price |-> perSeatPriceId,
                         quantity |-> Some(pc[c].seatCount)]>>)
      refused == [stripe |-> Called(stripe,
                               [method |-> "subscriptions.update",
                                id |-> subscriptionId]),
                  threw |-> TRUE]
  IN /\ pc[c].at = "update"
     /\ \E done \in IF perSeatItem # None THEN {inPlace}
                    ELSE IF PerSeatItems(stripe.subscriptions[subscriptionId]) = {}
                    THEN {added}
                    ELSE {added, refused} :
          /\ stripe' = done.stripe
          /\ pc' = [pc EXCEPT ![c] = [at |-> IF done.threw THEN "threw"
                                             ELSE "returned"]]
     /\ UNCHANGED <<usage_records, now, call, result>>
     /\ UNCHANGED webhookVars
     /\ UNCHANGED <<store, atEntry>>

\* caller c has its answer; the log of provider calls is read no more
updateSubscriptionSeatsReturn(c) ==
  /\ pc[c].at \in {"returned", "threw"}
  /\ pc' = [pc EXCEPT ![c] = [at |-> "idle"]]
  /\ stripe' = [stripe EXCEPT !.calls = <<>>]
  /\ UNCHANGED <<usage_records, now, call, result>>
  /\ UNCHANGED webhookVars
  /\ UNCHANGED <<store, atEntry>>

NextSeatsRace ==
  \/ \E c \in Callers, seatCount \in 1..MaxSeats :
       updateSubscriptionSeatsRetrieve(c, "sub_1", seatCount)
  \/ \E c \in Callers : updateSubscriptionSeatsUpdate(c)
  \/ \E c \in Callers : updateSubscriptionSeatsReturn(c)

SpecSeatsRace == InitBilling /\ [][NextSeatsRace]_vars

====
